---- MODULE Spec2Model ----
(***************************************************************************)
(* Model of the payment reconciliation worker of django-cryptocurrency-    *)
(* payment: src/cryptocurrency_payment/tasks.py, CryptoCurrencyPaymentTask *)
(* with its three sweeps (status update, unpaid expiry, price refresh).    *)
(*                                                                         *)
(* The payment table is `store` (a sequence, a payment's pk is its index   *)
(* and stands for its address too).  A sweep invocation first evaluates    *)
(* its queryset (a snapshot of full model instances) and then runs its     *)
(* loop body once per instance; payment.save() writes every field of the   *)
(* in-memory instance back to the row.  Time is a clock of abstract ticks; *)
(* amounts are integers of the smallest unit.                              *)
(*                                                                         *)
(* A sweep invocation occupies a worker slot of `runs`: it evaluates its   *)
(* queryset, runs its loop body once per instance and returns.  Spec runs  *)
(* the sweeps one after the other, SpecConc lets two status-update sweeps  *)
(* overlap, the loop body taking its adapter call, its child creation and  *)
(* its save in separate steps; SpecTwice runs the status-update sweep twice *)
(* in succession; SpecLive runs the sweeps periodically, for ever.         *)
(* `children`, `last` and `prev` are history:                              *)
(* the (parent, child) pairs create_child_payment has made, what the last  *)
(* run of a loop body met, and the last completed status-update sweep.     *)
(***************************************************************************)
EXTENDS Integers, Sequences, FiniteSets, TLC

VARIABLES store, now, runs, children, last, prev

vars == <<store, now, runs, children, last, prev>>

(***************************** bounds **************************************)
\* payments existing before the first sweep: 1..NumInitial of them
NumInitial == 2
\* capacity of the payment table (initial payments and spawned children)
MaxPayments == 3
\* last tick of the clock
MaxTime == 1
\* concurrent sweep invocations (SpecConc); Spec uses worker 1 only
Workers == {1, 2}

(***************************** vocabulary *********************************)
\* None: payment.tx_hash = None, paid_crypto_amount / child_payment unset
NULL == 0

PAYMENT_NEW == "new"
PAYMENT_WAIT == "wait"
PAYMENT_PROCESSING == "processing"
PAYMENT_PAID == "paid"
PAYMENT_CANCELLED == "cancelled"

Terminal == {PAYMENT_PAID, PAYMENT_CANCELLED}

\* the status codes of backend_obj.confirm_address_payment
UNCONFIRMED_ADDRESS_BALANCE == "unconfirmed"
CONFIRMED_ADDRESS_BALANCE == "confirmed"
UNDERPAID_ADDRESS_BALANCE == "underpaid"
NO_HASH_ADDRESS_BALANCE == "no_hash"
\* any status code that is none of the four above
UNKNOWN_ADDRESS_BALANCE == "unknown"

\* get_active_backends(): the keys of settings.CRYPTOCURRENCY_PAYMENT
ActiveBackends == <<"BITCOIN", "BITCOINTEST">>
Backends == {ActiveBackends[i] : i \in DOMAIN ActiveBackends}

(***************************** configuration ******************************)
\* CryptoCurrencyPaymentTask.__init__: the backend's settings.  The windows
\* are in ticks of the model clock; the two backends are given different
\* expiry windows and different underpayment policies (BITCOINTEST expires
\* a payment within the tick of its creation and spawns no child payment).
unpaid_payment_hrs(crypto) == IF crypto = "BITCOIN" THEN 1 ELSE 0

refresh_prices_every_mins(crypto) == IF crypto = "BITCOIN" THEN 1 ELSE 1

create_new_underpayment(crypto) == crypto = "BITCOIN"

ignore_underpayment_amount(crypto) == IF crypto = "BITCOIN" THEN 10 ELSE 10

(***************************** backend adapter ****************************)
\* transaction references the backend can report
TxHashes == {1}
\* remaining (unpaid) amounts an underpaid result can carry
RemainingValues == {1}
\* fiat units per crypto unit: the exchange rate drifts between these
FiatRates == {10, 11}
\* the fiat amounts and the currency of payments created by the checkout
CheckoutFiat == {40}
FiatCurrency == "USD"
\* the exchange rate at which the checkout priced the initial payments
CheckoutRate == CHOOSE r \in FiatRates : \A s \in FiatRates : r <= s

\* backend_obj.confirm_address_payment(address, total_crypto_amount, ...):
\* every (status, value) it may return for a payment requesting `total`
confirm_address_payment(total) ==
    {<<UNCONFIRMED_ADDRESS_BALANCE, h>> : h \in TxHashes}
    \cup {<<CONFIRMED_ADDRESS_BALANCE, total>>}
    \cup {<<UNDERPAID_ADDRESS_BALANCE, v>> : v \in {x \in RemainingValues : x < total}}
    \cup {<<NO_HASH_ADDRESS_BALANCE, NULL>>}
    \cup {<<UNKNOWN_ADDRESS_BALANCE, NULL>>}

\* backend_obj.convert_to_fiat(amount, currency) at exchange rate `rate`
convert_to_fiat(amount, rate) == amount * rate

\* backend_obj.convert_from_fiat(fiat_amount, currency) at exchange rate `rate`
convert_from_fiat(fiat, rate) == fiat \div rate

(***************************** payment store ******************************)
new_payment(crypto, fiat, amount, t) ==
    [crypto |-> crypto, status |-> PAYMENT_NEW, tx_hash |-> NULL,
     created_at |-> t, updated_at |-> t,
     crypto_amount |-> amount, fiat_amount |-> fiat, fiat_currency |-> FiatCurrency,
     paid_crypto_amount |-> NULL, child_payment |-> NULL]

Ids == DOMAIN store

\* payment.save(): the whole in-memory instance overwrites the row
\* (no update_fields), updated_at is bumped
save(st, id, payment, t) ==
    [st EXCEPT ![id] = [payment EXCEPT !.updated_at = t]]

\* create_child_payment(payment, fiat_amount): a new payment of the same
\* backend for the remaining fiat value; its pk is the next free one
create_child_payment(st, payment, fiat, rate, t) ==
    Append(st, new_payment(payment.crypto, fiat, convert_from_fiat(fiat, rate), t))

(***************************** status-update sweep ************************)
\* a variant of update_filter without the test of the status
update_filter_any_status(payment, crypto, t) ==
    /\ payment.crypto = crypto
    /\ \/ payment.created_at >= t - unpaid_payment_hrs(crypto)
       \/ payment.tx_hash # NULL

\* a variant of update_filter without the clause that keeps a payment with a
\* transaction selected
update_filter_window_only(payment, crypto, t) ==
    /\ payment.crypto = crypto
    /\ payment.status \in {PAYMENT_NEW, PAYMENT_PROCESSING, PAYMENT_WAIT}
    /\ payment.created_at >= t - unpaid_payment_hrs(crypto)

\* a variant of update_filter without the test of the age
update_filter_any_age(payment, crypto, t) ==
    /\ payment.crypto = crypto
    /\ payment.status \in {PAYMENT_NEW, PAYMENT_PROCESSING, PAYMENT_WAIT}

\* the queryset of update_crypto_currency_payment_status at time t
update_filter(payment, crypto, t) ==
    /\ payment.crypto = crypto
    /\ \/ /\ payment.status \in {PAYMENT_NEW, PAYMENT_PROCESSING, PAYMENT_WAIT}
          /\ payment.created_at >= t - unpaid_payment_hrs(crypto)
       \/ /\ payment.status = PAYMENT_PROCESSING
          /\ payment.tx_hash # NULL

\* order_by('tx_hash'): the pks the loop may take next, those of the least
\* tx_hash (NULL first); the order among equal tx_hash is the database's
next_in_order(snap, todo) ==
    {id \in todo : \A other \in todo : snap[id].tx_hash <= snap[other].tx_hash}

\* a variant of paid_amount that takes the adapter's value for the amount
\* received
paid_amount_received(payment, remaining_value) == remaining_value

\* line 119: the amount counted as paid on an underpaid result, the
\* adapter's value being the amount that remains to be paid
paid_amount(payment, remaining_value) == payment.crypto_amount - remaining_value

\* a variant of ignored that ignores a remainder strictly below the threshold
ignored_below(remaining_fiat_value, crypto) ==
    remaining_fiat_value < ignore_underpayment_amount(crypto)

\* line 127: the remaining fiat value is small enough to be ignored
ignored(remaining_fiat_value, crypto) ==
    remaining_fiat_value <= ignore_underpayment_amount(crypto)

\* a variant of unresolved that marks the payment paid
unresolved_paid(underpaid) == [underpaid EXCEPT !.status = PAYMENT_PAID]

\* lines 129-130: the remainder is neither split nor ignored (TODO in the
\* source): the status is left as it is
unresolved(underpaid) == underpaid

\* a variant of unrecognized that forgets the transaction seen so far
unrecognized_reset(payment) ==
    [payment EXCEPT !.status = PAYMENT_CANCELLED, !.tx_hash = NULL]

\* lines 135-137: any other status code: the payment is cancelled
unrecognized(payment) == [payment EXCEPT !.status = PAYMENT_CANCELLED]

\* The if/elif chain of the loop body on the adapter's (status, value):
\* the instance as mutated in memory, whether a child payment is to be
\* created, and the remaining fiat value (NULL when none is computed).
decide(payment, crypto, res, rate) ==
    LET status == res[1]
        value == res[2]
        remaining_value == value
        remaining_fiat_value == convert_to_fiat(remaining_value, rate)
        underpaid == [payment EXCEPT
                        !.paid_crypto_amount = paid_amount(payment, remaining_value)]
    IN  IF status = UNCONFIRMED_ADDRESS_BALANCE THEN
            [payment |-> [payment EXCEPT !.status = PAYMENT_PROCESSING, !.tx_hash = value],
             spawn |-> FALSE, fiat |-> NULL]
        ELSE IF status = CONFIRMED_ADDRESS_BALANCE THEN
            [payment |-> [payment EXCEPT !.status = PAYMENT_PAID, !.paid_crypto_amount = value],
             spawn |-> FALSE, fiat |-> NULL]
        ELSE IF status = UNDERPAID_ADDRESS_BALANCE THEN
            IF /\ create_new_underpayment(crypto)
               /\ remaining_fiat_value > ignore_underpayment_amount(crypto)
            THEN [payment |-> [underpaid EXCEPT !.status = PAYMENT_PAID],
                  spawn |-> TRUE, fiat |-> remaining_fiat_value]
            ELSE IF ignored(remaining_fiat_value, crypto)
            THEN [payment |-> [underpaid EXCEPT !.status = PAYMENT_PAID],
                  spawn |-> FALSE, fiat |-> remaining_fiat_value]
            ELSE [payment |-> unresolved(underpaid),
                  spawn |-> FALSE, fiat |-> remaining_fiat_value]
        ELSE IF status = NO_HASH_ADDRESS_BALANCE THEN
            [payment |-> [payment EXCEPT !.status = PAYMENT_WAIT, !.tx_hash = NULL],
             spawn |-> FALSE, fiat |-> NULL]
        ELSE
            [payment |-> unrecognized(payment), spawn |-> FALSE, fiat |-> NULL]

\* where the loop body can raise once the adapter has answered: the fiat
\* conversion, create_child_payment, payment.save() (and, on the no-hash
\* branch, the second payment.save() after the first went through)
faults(payment, crypto, res, rate) ==
    {"none", "save"}
    \cup (IF res[1] = UNDERPAID_ADDRESS_BALANCE THEN {"convert"} ELSE {})
    \cup (IF decide(payment, crypto, res, rate).spawn THEN {"child"} ELSE {})
    \cup (IF res[1] = NO_HASH_ADDRESS_BALANCE THEN {"save2"} ELSE {})

\* what one run of the loop body can meet: the adapter raises, or it
\* answers and then comes the exchange rate (read on the underpaid branch
\* only) and the call that raises
choices(payment, crypto) ==
    {[res |-> <<"raised", NULL>>, rate |-> CheckoutRate, fault |-> "adapter"]}
    \cup
    UNION {UNION {{[res |-> res, rate |-> rate, fault |-> fault] :
                     fault \in faults(payment, crypto, res, rate)} :
                  rate \in IF res[1] = UNDERPAID_ADDRESS_BALANCE THEN FiatRates
                           ELSE {CheckoutRate}} :
           res \in confirm_address_payment(payment.crypto_amount)}

\* whether the loop body gets as far as creating a child payment
creates_child(payment, crypto, c) ==
    decide(payment, crypto, c.res, c.rate).spawn /\ c.fault \in {"none", "save"}

\* a variant of update_body that does not link the parent to its child
update_body_unlinked(st, id, payment, crypto, c, t) ==
    LET d == decide(payment, crypto, c.res, c.rate)
        created == creates_child(payment, crypto, c)
        st1 == IF created THEN create_child_payment(st, payment, d.fiat, c.rate, t) ELSE st
    IN  IF c.fault \in {"none", "save2"} THEN save(st1, id, d.payment, t) ELSE st1

\* lines 99-140: the table after one run of the loop body (try ... except
\* Exception) on `payment`, the instance of pk `id`
update_body(st, id, payment, crypto, c, t) ==
    LET d == decide(payment, crypto, c.res, c.rate)
        created == creates_child(payment, crypto, c)
        st1 == IF created THEN create_child_payment(st, payment, d.fiat, c.rate, t) ELSE st
        mem == IF created THEN [d.payment EXCEPT !.child_payment = Len(st1)] ELSE d.payment
    IN  IF c.fault \in {"none", "save2"} THEN save(st1, id, mem, t) ELSE st1

\* what the history keeps of one run of the loop body: the adapter's answer
\* and the remaining fiat value when the body did not raise
outcome(payment, crypto, c) ==
    IF c.fault = "none"
    THEN [res |-> c.res, fiat |-> decide(payment, crypto, c.res, c.rate).fiat, fault |-> c.fault]
    ELSE [res |-> <<"raised", NULL>>, fiat |-> NULL, fault |-> c.fault]

(***************************** sweep invocations **************************)
\* A worker slot: op is the sweep ("idle" when none), crypto its backend,
\* snap the instances its queryset returned and its loop has not reached
\* yet, todo their pks.
\* raised and done are history: whether a loop body of this sweep has
\* raised, and (kept when prev.track is set) what the loop body met on each
\* instance it has reached.
\* pc, cur, mem and met are used when the loop body runs in separate steps:
\* its position ("next": between two instances), the pk and the in-memory
\* instance it is working on, and what it meets on this instance.
Idle ==
    [op |-> "idle", crypto |-> "", snap |-> <<>>, todo |-> {}, done |-> <<>>,
     pc |-> "next", cur |-> NULL, mem |-> <<>>, met |-> <<>>, raised |-> FALSE]

\* the sweep has its queryset
begin(op, crypto, st, sel) ==
    [Idle EXCEPT !.op = op, !.crypto = crypto, !.snap = [id \in sel |-> st[id]],
                 !.todo = sel]

\* the loop has dealt with instance id: its in-memory copy is dropped
advance(run, id, o, track) ==
    [run EXCEPT !.todo = @ \ {id},
                !.snap = [x \in DOMAIN @ \ {id} |-> @[x]],
                !.done = IF track THEN (id :> o) @@ @ ELSE @,
                !.pc = "next", !.cur = NULL, !.mem = <<>>, !.met = <<>>]

\* a variant of caught in which the exception leaves the sweep
caught_abort(run, id, o, track) == Idle

\* lines 139-140: except Exception: the failure is logged and the loop goes
\* on with the next instance
caught(run, id, o, track) ==
    [advance(run, id, o, track) EXCEPT !.raised = TRUE]

\* the sweep after one run of the loop body of the status-update sweep
continue(run, id, o, track) ==
    IF o.fault = "none" THEN advance(run, id, o, track) ELSE caught(run, id, o, track)

NoLast == [op |-> "none", crypto |-> "", id |-> NULL, before |-> "",
           res |-> <<"none", NULL>>, fiat |-> NULL, fault |-> "none", child |-> NULL]

\* the history of one run of a loop body on the instance `payment` of pk
\* id: the sweep and its backend, the status the instance had, what the body
\* met, and the pk of the payment it created (which call raised is not kept)
step(op, crypto, id, payment, o, child) ==
    [op |-> op, crypto |-> crypto, id |-> id, before |-> payment.status,
     res |-> o.res, fiat |-> o.fiat,
     fault |-> IF o.fault = "none" THEN "none" ELSE "raised", child |-> child]

\* history of the last completed status-update sweep, kept while nothing
\* else has happened since (no tick, no other sweep), in the behaviours
\* that start with prev.track set: its backend, what it met, and the table
\* it left
NoPrev(track) ==
    [track |-> track, valid |-> FALSE, crypto |-> "", done |-> <<>>, store |-> <<>>]

\* the history after a sweep `op` of backend `crypto` has returned
completed(old, op, crypto, done, st) ==
    IF old.track /\ op = "update"
    THEN [track |-> TRUE, valid |-> TRUE, crypto |-> crypto, done |-> done, store |-> st]
    ELSE NoPrev(old.track)

\* lines 83-97: the sweep evaluates its queryset
update_crypto_currency_payment_status(w, crypto) ==
    /\ runs[w].op = "idle"
    /\ runs' = [runs EXCEPT ![w] =
                  begin("update", crypto, store,
                        {id \in Ids : update_filter(store[id], crypto, now)})]
    /\ last' = NoLast
    /\ prev' = IF prev.valid /\ prev.crypto = crypto THEN prev ELSE NoPrev(prev.track)
    /\ UNCHANGED <<store, now, children>>

\* lines 98-140: the loop body on the next instance; an exception is caught
\* inside the body and the loop goes on
update_payment(w) ==
    /\ runs[w].op = "update"
    /\ runs[w].pc = "next"
    /\ \E id \in next_in_order(runs[w].snap, runs[w].todo) :
         LET payment == runs[w].snap[id]
             crypto == runs[w].crypto
         IN  \E c \in choices(payment, crypto) :
               /\ creates_child(payment, crypto, c) => Len(store) < MaxPayments
               /\ store' = update_body(store, id, payment, crypto, c, now)
               /\ children' = IF creates_child(payment, crypto, c)
                              THEN children \cup {<<id, Len(store')>>} ELSE children
               /\ runs' = [runs EXCEPT ![w] =
                             continue(@, id, outcome(payment, crypto, c), prev.track)]
               /\ last' = step("update", crypto, id, payment, outcome(payment, crypto, c),
                               IF creates_child(payment, crypto, c) THEN Len(store') ELSE NULL)
    /\ UNCHANGED <<now, prev>>

(***************************** the loop body in steps *********************)
\* lines 100-119: the adapter call, the if/elif chain and the fiat
\* conversion on the next instance
update_confirm(w) ==
    /\ runs[w].op = "update"
    /\ runs[w].pc = "next"
    /\ \E id \in next_in_order(runs[w].snap, runs[w].todo) :
         LET payment == runs[w].snap[id]
             crypto == runs[w].crypto
         IN  \E c \in choices(payment, crypto) :
               LET d == decide(payment, crypto, c.res, c.rate)
                   o == outcome(payment, crypto, c)
               IN  IF c.fault \in {"adapter", "convert"}
                   THEN /\ runs' = [runs EXCEPT ![w] = continue(@, id, o, prev.track)]
                        /\ last' = step("update", crypto, id, payment, o, NULL)
                   ELSE /\ runs' = [runs EXCEPT ![w].pc = IF d.spawn THEN "child" ELSE "save",
                                                ![w].cur = id, ![w].mem = d.payment,
                                                ![w].met = c]
                        /\ last' = last
    /\ UNCHANGED <<store, now, children, prev>>

\* line 124: create_child_payment and the link to the child
update_create_child(w) ==
    /\ runs[w].op = "update"
    /\ runs[w].pc = "child"
    /\ LET id == runs[w].cur
           payment == runs[w].snap[id]
           crypto == runs[w].crypto
           c == runs[w].met
       IN  IF c.fault = "child"
           THEN /\ runs' = [runs EXCEPT ![w] =
                              continue(@, id, outcome(payment, crypto, c), prev.track)]
                /\ last' = step("update", crypto, id, payment, outcome(payment, crypto, c), NULL)
                /\ UNCHANGED <<store, children>>
           ELSE /\ Len(store) < MaxPayments
                /\ store' = create_child_payment(store, payment,
                                                 decide(payment, crypto, c.res, c.rate).fiat,
                                                 c.rate, now)
                /\ children' = children \cup {<<id, Len(store')>>}
                /\ runs' = [runs EXCEPT ![w].pc = "save",
                                        ![w].mem = [@ EXCEPT !.child_payment = Len(store')]]
                /\ last' = last
    /\ UNCHANGED <<now, prev>>

\* lines 134 and 138: payment.save() (both saves of the no-hash branch)
update_save(w) ==
    /\ runs[w].op = "update"
    /\ runs[w].pc = "save"
    /\ LET id == runs[w].cur
           payment == runs[w].snap[id]
           crypto == runs[w].crypto
           c == runs[w].met
       IN  /\ store' = IF c.fault = "save" THEN store ELSE save(store, id, runs[w].mem, now)
           /\ runs' = [runs EXCEPT ![w] =
                         continue(@, id, outcome(payment, crypto, c), prev.track)]
           /\ last' = step("update", crypto, id, payment, outcome(payment, crypto, c),
                           runs[w].mem.child_payment)
    /\ UNCHANGED <<now, children, prev>>

(***************************** expiry sweep *******************************)
\* a variant of cancel_filter without the test of the status
cancel_filter_any_status(payment, crypto, t) ==
    payment.created_at <= t - unpaid_payment_hrs(crypto)

\* a variant of cancel_filter without the test of the age
cancel_filter_any_age(payment, crypto, t) ==
    payment.status \in {PAYMENT_NEW, PAYMENT_WAIT}

\* the queryset of cancel_unpaid_payment at time t (no filter on crypto)
cancel_filter(payment, crypto, t) ==
    /\ payment.status \in {PAYMENT_NEW, PAYMENT_WAIT}
    /\ payment.created_at <= t - unpaid_payment_hrs(crypto)

\* lines 148-152: the sweep evaluates its queryset
cancel_unpaid_payment(w, crypto) ==
    /\ runs[w].op = "idle"
    /\ runs' = [runs EXCEPT ![w] =
                  begin("cancel", crypto, store,
                        {id \in Ids : cancel_filter(store[id], crypto, now)})]
    /\ last' = NoLast
    /\ prev' = NoPrev(prev.track)
    /\ UNCHANGED <<store, now, children>>

\* lines 153-155: the loop body; an exception of save() leaves the sweep
cancel_payment(w) ==
    /\ runs[w].op = "cancel"
    /\ \E id \in runs[w].todo, fault \in {"none", "save"} :
         LET payment == runs[w].snap[id]
             o == [res |-> <<IF fault = "none" THEN "cancel" ELSE "raised", NULL>>,
                   fiat |-> NULL, fault |-> fault]
         IN  /\ store' = IF fault = "none"
                         THEN save(store, id, [payment EXCEPT !.status = PAYMENT_CANCELLED], now)
                         ELSE store
             /\ runs' = [runs EXCEPT ![w] = IF fault = "none" THEN advance(@, id, o, FALSE)
                                            ELSE Idle]
             /\ last' = step("cancel", runs[w].crypto, id, payment, o, NULL)
    /\ UNCHANGED <<now, children, prev>>

(***************************** price-refresh sweep ************************)
\* a variant of refresh_filter without the test of the status
refresh_filter_any_status(payment, crypto, t) ==
    payment.updated_at <= t - refresh_prices_every_mins(crypto)

\* the queryset of refresh_new_crypto_payment_amount at time t (no filter
\* on crypto)
refresh_filter(payment, crypto, t) ==
    /\ payment.status \in {PAYMENT_NEW, PAYMENT_WAIT}
    /\ payment.updated_at <= t - refresh_prices_every_mins(crypto)

\* lines 163-168: the sweep evaluates its queryset
refresh_new_crypto_payment_amount(w, crypto) ==
    /\ runs[w].op = "idle"
    /\ runs' = [runs EXCEPT ![w] =
                  begin("refresh", crypto, store,
                        {id \in Ids : refresh_filter(store[id], crypto, now)})]
    /\ last' = NoLast
    /\ prev' = NoPrev(prev.track)
    /\ UNCHANGED <<store, now, children>>

\* lines 169-174: the loop body; an exception of convert_from_fiat or of
\* save() leaves the sweep
refresh_payment(w) ==
    /\ runs[w].op = "refresh"
    /\ \E id \in runs[w].todo, rate \in FiatRates, fault \in {"none", "convert", "save"} :
         LET payment == runs[w].snap[id]
             amount == convert_from_fiat(payment.fiat_amount, rate)
             o == IF fault = "none"
                  THEN [res |-> <<"refresh", amount>>, fiat |-> NULL, fault |-> fault]
                  ELSE [res |-> <<"raised", NULL>>, fiat |-> NULL, fault |-> fault]
         IN  /\ store' = IF fault = "none"
                         THEN save(store, id, [payment EXCEPT !.crypto_amount = amount], now)
                         ELSE store
             /\ runs' = [runs EXCEPT ![w] = IF fault = "none" THEN advance(@, id, o, FALSE)
                                            ELSE Idle]
             /\ last' = step("refresh", runs[w].crypto, id, payment, o, NULL)
    /\ UNCHANGED <<now, children, prev>>

(***************************** scheduling *********************************)
\* the loop is exhausted: the sweep returns
sweep_return(w) ==
    /\ runs[w].op # "idle"
    /\ runs[w].pc = "next"
    /\ runs[w].todo = {}
    /\ runs' = [runs EXCEPT ![w] = Idle]
    /\ last' = NoLast
    /\ prev' = completed(prev, runs[w].op, runs[w].crypto, runs[w].done, store)
    /\ UNCHANGED <<store, now, children>>

\* the same, of a worker that runs one sweep and exits
sweep_exit(w) ==
    /\ runs[w].op \notin {"idle", "exited"}
    /\ runs[w].pc = "next"
    /\ runs[w].todo = {}
    /\ runs' = [runs EXCEPT ![w] = [Idle EXCEPT !.op = "exited"]]
    /\ last' = NoLast
    /\ prev' = completed(prev, runs[w].op, runs[w].crypto, runs[w].done, store)
    /\ UNCHANGED <<store, now, children>>

\* time passes between sweeps
Tick ==
    /\ \A w \in Workers : runs[w].op = "idle"
    /\ now < MaxTime
    /\ now' = now + 1
    /\ last' = NoLast
    /\ prev' = NoPrev(prev.track)
    /\ UNCHANGED <<store, runs, children>>

\* the tables the checkout has left: 1..NumInitial new payments, of any
\* backends (the order of the rows is immaterial: one table per multiset of
\* backends)
InitialStores ==
    {[i \in DOMAIN c |->
        new_payment(ActiveBackends[c[i][1]], c[i][2],
                    convert_from_fiat(c[i][2], CheckoutRate), 0)] :
     c \in {x \in UNION {[1..n -> (DOMAIN ActiveBackends) \X CheckoutFiat] : n \in 1..NumInitial} :
              \A i \in 1..(Len(x) - 1) : x[i][1] <= x[i + 1][1]}}

Init ==
    /\ store \in InitialStores
    /\ now = 0
    /\ runs = [w \in Workers |-> Idle]
    /\ children = {}
    /\ last = NoLast
    /\ prev = NoPrev(FALSE)

\* the same, the history of completed status-update sweeps being kept
TwiceInit ==
    /\ store \in InitialStores
    /\ now = 0
    /\ runs = [w \in Workers |-> Idle]
    /\ children = {}
    /\ last = NoLast
    /\ prev = NoPrev(TRUE)

\* the scheduler runs one sweep at a time, for one backend at a time
Next ==
    \/ \E crypto \in Backends : update_crypto_currency_payment_status(1, crypto)
    \/ update_payment(1)
    \/ \E crypto \in Backends : cancel_unpaid_payment(1, crypto)
    \/ cancel_payment(1)
    \/ \E crypto \in Backends : refresh_new_crypto_payment_amount(1, crypto)
    \/ refresh_payment(1)
    \/ sweep_return(1)
    \/ Tick

Spec == Init /\ [][Next]_vars

\* the scheduler starts one status-update sweep on each worker, overlapping
\* runs: the steps of their loop bodies interleave
ConcInit ==
    /\ Init
    /\ Len(store) = 1

ConcNext ==
    \/ \E w \in Workers, crypto \in Backends : update_crypto_currency_payment_status(w, crypto)
    \/ \E w \in Workers : update_confirm(w)
    \/ \E w \in Workers : update_create_child(w)
    \/ \E w \in Workers : update_save(w)
    \/ \E w \in Workers : sweep_exit(w)

SpecConc == ConcInit /\ [][ConcNext]_vars

\* the scheduler runs the status-update sweep twice in immediate succession:
\* worker 2 starts its sweep when the sweep of worker 1 has returned
TwiceNext ==
    \/ \E crypto \in Backends : update_crypto_currency_payment_status(1, crypto)
    \/ update_payment(1)
    \/ sweep_exit(1)
    \/ /\ runs[1].op = "exited"
       /\ \E crypto \in Backends : update_crypto_currency_payment_status(2, crypto)
    \/ update_payment(2)
    \/ sweep_exit(2)

SpecTwice == TwiceInit /\ [][TwiceNext]_vars

(***************************** periodic scheduling ************************)
\* The clock of the periodic schedule never stops.  It is kept finite by
\* not telling apart ages beyond LiveHorizon, which exceeds every window:
\* at LiveHorizon the timestamps move back instead of the clock moving on.
LiveHorizon == MaxTime + 1

aged(payment) ==
    [payment EXCEPT !.created_at = IF @ > 0 THEN @ - 1 ELSE 0,
                    !.updated_at = IF @ > 0 THEN @ - 1 ELSE 0]

\* time passes between sweeps
Elapse ==
    /\ \A w \in Workers : runs[w].op = "idle"
    /\ IF now < LiveHorizon
       THEN now' = now + 1 /\ store' = store
       ELSE now' = now /\ store' = [id \in Ids |-> aged(store[id])]
    /\ last' = NoLast
    /\ prev' = NoPrev(prev.track)
    /\ UNCHANGED <<runs, children>>

\* the status-update and the price-refresh sweeps of every backend keep
\* being run, no call raising
LiveNext ==
    \/ \E crypto \in Backends : update_crypto_currency_payment_status(1, crypto)
    \/ update_payment(1) /\ last'.fault = "none"
    \/ \E crypto \in Backends : refresh_new_crypto_payment_amount(1, crypto)
    \/ refresh_payment(1) /\ last'.fault = "none"
    \/ sweep_return(1)
    \/ Elapse

\* periodic tasks: every sweep of every backend is started again and again,
\* a started sweep runs to its end, and time passes
SpecLive ==
    /\ ConcInit
    /\ [][LiveNext]_vars
    /\ \A crypto \in Backends :
         /\ SF_vars(update_crypto_currency_payment_status(1, crypto))
         /\ SF_vars(refresh_new_crypto_payment_amount(1, crypto))
    /\ WF_vars(update_payment(1) /\ last'.fault = "none")
    /\ WF_vars(refresh_payment(1) /\ last'.fault = "none")
    /\ WF_vars(sweep_return(1))
    /\ SF_vars(Elapse)

(***************************** properties *********************************)
\* the loop body of the status-update sweep has just run on payment last.id
\* and met an underpaid result without raising
underpaid_met(l) ==
    /\ l.op = "update"
    /\ l.fault = "none"
    /\ l.res[1] = UNDERPAID_ADDRESS_BALANCE

\* the status a payment of status `before` gets from the adapter's answer
dictated(before, res, fiat, crypto) ==
    CASE res[1] = UNCONFIRMED_ADDRESS_BALANCE -> PAYMENT_PROCESSING
      [] res[1] = CONFIRMED_ADDRESS_BALANCE -> PAYMENT_PAID
      [] res[1] = NO_HASH_ADDRESS_BALANCE -> PAYMENT_WAIT
      [] res[1] = UNDERPAID_ADDRESS_BALANCE ->
            IF create_new_underpayment(crypto) \/ fiat <= ignore_underpayment_amount(crypto)
            THEN PAYMENT_PAID ELSE before
      [] OTHER -> PAYMENT_CANCELLED

\* C1: PAID and CANCELLED are absorbing under sequentially executed sweeps:
\* a payment whose status is PAID or CANCELLED matches neither the selection
\* of the status-update sweep nor that of the expiry sweep, of any backend
\* and at any time, no running sweep still has it to process, and no step
\* changes its status.
C1_Absorbing ==
    /\ [](\A id \in Ids :
            store[id].status \in Terminal =>
              /\ \A crypto \in Backends, t \in 0..MaxTime :
                   /\ ~update_filter(store[id], crypto, t)
                   /\ ~cancel_filter(store[id], crypto, t)
              /\ id \notin runs[1].todo)
    /\ [][\A id \in Ids :
            store[id].status \in Terminal => store'[id].status = store[id].status]_vars

\* a payment was paid at an earlier tick and a sweep has since run its loop
\* body on another payment
C1_Witness ==
    \E id \in Ids :
      /\ store[id].status = PAYMENT_PAID
      /\ store[id].updated_at < now
      /\ last.op \in {"update", "cancel", "refresh"}
      /\ last.id # id

\* C2: failure isolation in the status-update sweep: a run of the loop body,
\* raising or not, takes one payment off the selection and leaves the sweep
\* running on the others; the sweep returns only when the selection is
\* exhausted; and a run that does not raise gives its payment the status
\* its own adapter outcome dictates.
C2_FailureIsolation ==
    [][runs[1].op = "update" =>
         \/ /\ runs[1].todo = {}
            /\ runs'[1].op = "idle"
         \/ \E id \in runs[1].todo :
              /\ runs'[1].op = "update"
              /\ runs'[1].todo = runs[1].todo \ {id}
              /\ last'.op = "update"
              /\ last'.id = id
              /\ last'.fault = "none" =>
                   store'[id].status =
                     dictated(store[id].status, last'.res, last'.fiat, runs[1].crypto)]_vars

\* a loop body of the running sweep has raised and the body has since run
\* on another payment, which it marked paid
C2_Witness ==
    /\ runs[1].op = "update"
    /\ runs[1].raised
    /\ last.op = "update"
    /\ last.fault = "none"
    /\ store[last.id].status = PAYMENT_PAID

\* C3: with overlapping status-update sweeps, a stored status PAID or
\* CANCELLED is never replaced by another status.
C3_TerminalKept ==
    [][\A id \in Ids :
         store[id].status \in Terminal => store'[id].status \in {store[id].status}]_vars

\* C4: with overlapping status-update sweeps, at most one child payment is
\* created for any parent payment.
C4_OneChild ==
    \A id \in Ids : Cardinality({c \in children : c[1] = id}) <= 1

\* C5: an underpaid result whose remaining fiat value exceeds the ignore
\* threshold, auto-spawn being enabled for the backend: when the loop body
\* has run on the payment without raising, its status is PAID, its
\* child_payment link is set, and the fiat_amount of the child is the
\* remaining fiat value.
C5_SplitUnderpayment ==
    (/\ underpaid_met(last)
     /\ last.fiat > ignore_underpayment_amount(last.crypto)
     /\ create_new_underpayment(last.crypto))
    => /\ store[last.id].status = PAYMENT_PAID
       /\ store[last.id].child_payment # NULL
       /\ store[last.id].child_payment \in Ids
       /\ store[store[last.id].child_payment].fiat_amount = last.fiat

\* the loop body has split an underpayment: the child is the newest payment
C5_Witness ==
    /\ underpaid_met(last)
    /\ last.fiat > ignore_underpayment_amount(last.crypto)
    /\ create_new_underpayment(last.crypto)
    /\ store[last.id].child_payment = Len(store)
    /\ store[Len(store)].status = PAYMENT_NEW

\* C6: an underpaid result whose remaining fiat value is at or below the
\* ignore threshold, auto-spawn enabled or not: the loop body, when it does
\* not raise, leaves the payment PAID with no child_payment link and
\* creates no payment.
C6_ForgiveUnderpayment ==
    [][(/\ last' # last
        /\ underpaid_met(last')
        /\ last'.fiat <= ignore_underpayment_amount(last'.crypto))
       => /\ store'[last'.id].status = PAYMENT_PAID
          /\ store'[last'.id].child_payment = NULL
          /\ Len(store') = Len(store)
          /\ children' = children]_vars

\* the loop body has forgiven an underpayment of a backend with auto-spawn
\* enabled: the remaining fiat value is the threshold itself
C6_Witness ==
    /\ underpaid_met(last)
    /\ last.fiat = ignore_underpayment_amount(last.crypto)
    /\ create_new_underpayment(last.crypto)
    /\ store[last.id].status = PAYMENT_PAID
    /\ store[last.id].child_payment = NULL

\* C7: an underpaid result whose remaining fiat value exceeds the ignore
\* threshold, auto-spawn being disabled for the backend: the loop body,
\* when it does not raise, leaves the status of the payment as it was (NEW,
\* WAIT or PROCESSING) and creates no child payment.
C7_UnresolvedUnderpayment ==
    [][(/\ last' # last
        /\ underpaid_met(last')
        /\ last'.fiat > ignore_underpayment_amount(last'.crypto)
        /\ ~create_new_underpayment(last'.crypto))
       => /\ store'[last'.id].status = store[last'.id].status
          /\ store'[last'.id].status \in {PAYMENT_NEW, PAYMENT_WAIT, PAYMENT_PROCESSING}
          /\ store'[last'.id].child_payment = NULL
          /\ Len(store') = Len(store)
          /\ children' = children]_vars

\* the loop body has left an underpaid payment in PROCESSING
C7_Witness ==
    /\ underpaid_met(last)
    /\ last.fiat > ignore_underpayment_amount(last.crypto)
    /\ ~create_new_underpayment(last.crypto)
    /\ last.before = PAYMENT_PROCESSING
    /\ store[last.id].status = PAYMENT_PROCESSING

\* C8: a payment whose paid_crypto_amount is set has status PAID.
C8_PaidAmountOnlyWhenPaid ==
    \A id \in Ids :
      store[id].paid_crypto_amount # NULL => store[id].status = PAYMENT_PAID

fields(payment) ==
    <<payment.status, payment.tx_hash, payment.paid_crypto_amount, payment.child_payment>>

\* the second of two status-update sweeps of one backend in immediate
\* succession is running (or has run its loop to the end)
second_run ==
    /\ runs[2].op = "update"
    /\ prev.valid
    /\ prev.crypto = runs[2].crypto

\* C10 as stated: no loop body having raised and the second run having met,
\* on every payment both runs processed, what the first run met, every
\* payment is after the second run as the first run left it, and the second
\* run has created no payment.
C10_Idempotent ==
    (/\ second_run
     /\ \A id \in DOMAIN prev.done : prev.done[id].fault = "none"
     /\ \A id \in DOMAIN runs[2].done :
          /\ runs[2].done[id].fault = "none"
          /\ id \in DOMAIN prev.done => runs[2].done[id] = prev.done[id])
    => /\ Len(store) = Len(prev.store)
       /\ \A id \in DOMAIN prev.store : fields(store[id]) = fields(prev.store[id])

\* C10: every payment the first run has processed without raising, and on
\* which the second run (if it reaches it) meets what the first run met, is
\* after the second run as the first run left it, and the second run has
\* created no child payment for it.
C10_IdempotentOnProcessed ==
    second_run =>
      \A id \in DOMAIN prev.done :
        (/\ prev.done[id].fault = "none"
         /\ id \in DOMAIN runs[2].done => runs[2].done[id] = prev.done[id])
        => /\ fields(store[id]) = fields(prev.store[id])
           /\ \A c \in children : c[1] = id => c[2] <= Len(prev.store)

\* the first run has split an underpayment; the second run has processed a
\* payment of the first run, meeting the same, and the child payment
C10_Witness ==
    /\ second_run
    /\ \E id \in DOMAIN prev.done : prev.store[id].child_payment # NULL
    /\ \E id \in DOMAIN prev.done \cap DOMAIN runs[2].done :
         /\ prev.done[id].fault = "none"
         /\ runs[2].done[id] = prev.done[id]
    /\ \E id \in DOMAIN runs[2].done : id \notin DOMAIN prev.done

\* the payments other than id are as they were
others_unchanged(id) ==
    /\ Len(store') = Len(store)
    /\ \A other \in Ids \ {id} : store'[other] = store[other]

\* C11: the expiry sweep invoked with a backend selects exactly the payments
\* of status NEW or WAIT created at least that backend's expiry window ago;
\* its loop body, when it does not raise, cancels the payment it runs on,
\* and no step of the sweep changes any other payment: none of status
\* PROCESSING, PAID or CANCELLED is changed, whatever its age.
C11_ExpirySelection ==
    [][/\ (runs[1].op = "idle" /\ runs'[1].op = "cancel") =>
            runs'[1].todo =
              {id \in Ids : /\ store[id].status \in {PAYMENT_NEW, PAYMENT_WAIT}
                            /\ now - store[id].created_at >= unpaid_payment_hrs(runs'[1].crypto)}
       /\ (runs[1].op = "cancel" /\ last' # last /\ last'.op = "cancel") =>
            /\ last'.id \in runs[1].todo
            /\ others_unchanged(last'.id)
            /\ last'.fault = "none" => store'[last'.id].status = PAYMENT_CANCELLED
            /\ last'.fault # "none" => store' = store
       /\ (runs[1].op = "cancel" \/ runs'[1].op = "cancel") =>
            \A id \in Ids :
              store[id].status \in {PAYMENT_PROCESSING, PAYMENT_PAID, PAYMENT_CANCELLED}
                => store'[id] = store[id]]_vars

\* the expiry sweep has cancelled a payment, and has left alone a payment in
\* PROCESSING that is as old
C11_Witness ==
    /\ last.op = "cancel"
    /\ last.fault = "none"
    /\ store[last.id].status = PAYMENT_CANCELLED
    /\ last.before \in {PAYMENT_NEW, PAYMENT_WAIT}
    /\ \E id \in Ids :
         /\ store[id].status = PAYMENT_PROCESSING
         /\ store[id].created_at <= store[last.id].created_at

\* C12: an adapter result whose status code is none of unconfirmed,
\* confirmed, underpaid and no-hash: the loop body, when it does not raise,
\* leaves the payment CANCELLED, whatever its status was, with its tx_hash
\* and its paid_crypto_amount as they were.
C12_UnrecognizedCancels ==
    [][(/\ last' # last
        /\ last'.op = "update"
        /\ last'.fault = "none"
        /\ last'.res[1] \notin {UNCONFIRMED_ADDRESS_BALANCE, CONFIRMED_ADDRESS_BALANCE,
                                UNDERPAID_ADDRESS_BALANCE, NO_HASH_ADDRESS_BALANCE})
       => /\ store'[last'.id].status = PAYMENT_CANCELLED
          /\ store'[last'.id].tx_hash = store[last'.id].tx_hash
          /\ store'[last'.id].paid_crypto_amount = store[last'.id].paid_crypto_amount]_vars

\* an unrecognized result has cancelled a payment in PROCESSING, whose
\* tx_hash is kept
C12_Witness ==
    /\ last.op = "update"
    /\ last.fault = "none"
    /\ last.res[1] = UNKNOWN_ADDRESS_BALANCE
    /\ last.before = PAYMENT_PROCESSING
    /\ store[last.id].status = PAYMENT_CANCELLED
    /\ store[last.id].tx_hash # NULL

\* the step sets or changes the child_payment link of payment id
link_set(id) == store'[id].child_payment # store[id].child_payment

\* C13 as stated: the child_payment link of a payment is set at most once,
\* and only by a step of the status-update sweep that takes the payment from
\* PROCESSING to PAID on an underpaid result with a remainder.
C13_LinkFromProcessing ==
    [][\A id \in Ids :
         link_set(id) =>
           /\ store[id].child_payment = NULL
           /\ underpaid_met(last')
           /\ last'.id = id
           /\ last'.fiat > ignore_underpayment_amount(last'.crypto)
           /\ store[id].status = PAYMENT_PROCESSING
           /\ store'[id].status = PAYMENT_PAID]_vars

\* C13: the child_payment link of a payment is set at most once, and only
\* by a step of the status-update sweep that takes the payment from NEW,
\* WAIT or PROCESSING to PAID on an underpaid result whose remaining fiat
\* value exceeds the ignore threshold; a payment is created without a link.
C13_LinkSetOnce ==
    [][/\ \A id \in Ids :
            link_set(id) =>
              /\ store[id].child_payment = NULL
              /\ underpaid_met(last')
              /\ last'.id = id
              /\ last'.fiat > ignore_underpayment_amount(last'.crypto)
              /\ store[id].status \in {PAYMENT_NEW, PAYMENT_WAIT, PAYMENT_PROCESSING}
              /\ store'[id].status = PAYMENT_PAID
       /\ \A id \in DOMAIN store' \ Ids : store'[id].child_payment = NULL]_vars

\* the link of a payment has been set by a loop body that found it NEW
C13_Witness ==
    /\ underpaid_met(last)
    /\ last.before = PAYMENT_NEW
    /\ store[last.id].child_payment # NULL
    /\ store[last.id].status = PAYMENT_PAID

\* C14: in the expiry sweep and in the price-refresh sweep a loop body that
\* raises leaves the sweep running on the other selected payments.
C14_SweepSurvivesFailure ==
    [][(/\ last' # last
        /\ last'.op \in {"cancel", "refresh"}
        /\ last'.fault # "none")
       => /\ runs'[1].op = last'.op
          /\ runs'[1].todo = runs[1].todo \ {last'.id}]_vars

\* the fields the price-refresh sweep is to leave alone
refresh_frame(payment) ==
    <<payment.fiat_amount, payment.fiat_currency, payment.status, payment.tx_hash,
      payment.paid_crypto_amount>>

\* C15: the price-refresh sweep selects exactly the payments of status NEW
\* or WAIT last updated at least the refresh interval ago; its loop body,
\* when it does not raise, sets the crypto_amount of its payment to the
\* conversion of its fiat_amount; and no step of the sweep changes the
\* fiat_amount, fiat_currency, status, tx_hash or paid_crypto_amount of any
\* payment, nor the crypto_amount of another payment.
C15_RefreshFrame ==
    [][/\ (runs[1].op = "idle" /\ runs'[1].op = "refresh") =>
            runs'[1].todo =
              {id \in Ids :
                 /\ store[id].status \in {PAYMENT_NEW, PAYMENT_WAIT}
                 /\ now - store[id].updated_at >= refresh_prices_every_mins(runs'[1].crypto)}
       /\ (runs[1].op = "refresh" /\ last' # last /\ last'.op = "refresh") =>
            /\ last'.id \in runs[1].todo
            /\ others_unchanged(last'.id)
            /\ last'.fault = "none" =>
                 \E rate \in FiatRates :
                   store'[last'.id].crypto_amount =
                     convert_from_fiat(store[last'.id].fiat_amount, rate)
            /\ last'.fault # "none" => store' = store
       /\ (runs[1].op = "refresh" \/ runs'[1].op = "refresh") =>
            /\ Len(store') = Len(store)
            /\ \A id \in Ids : refresh_frame(store'[id]) = refresh_frame(store[id])]_vars

\* the sweep has refreshed a payment in WAIT, whose crypto_amount is no
\* longer the one the checkout priced
C15_Witness ==
    /\ last.op = "refresh"
    /\ last.fault = "none"
    /\ last.before = PAYMENT_WAIT
    /\ store[last.id].status = PAYMENT_WAIT
    /\ store[last.id].fiat_amount \in CheckoutFiat
    /\ store[last.id].crypto_amount # convert_from_fiat(store[last.id].fiat_amount, CheckoutRate)

\* the price-refresh sweep has just re-derived the crypto_amount of payment id
refreshed(id) ==
    /\ last.op = "refresh"
    /\ last.id = id
    /\ last.fault = "none"

C17_NotAbandoned ==
    \A id \in Ids :
      LET payment == store[id]
      IN  /\ payment.status \in {PAYMENT_NEW, PAYMENT_WAIT, PAYMENT_PROCESSING} =>
               \/ update_filter(payment, payment.crypto, now)
               \/ cancel_filter(payment, payment.crypto, now)
          /\ payment.status = PAYMENT_PROCESSING => payment.tx_hash # NULL

\* a payment in PROCESSING is past the expiry window of its backend and is
\* selected by the status-update sweep
C17_Witness ==
    \E id \in Ids :
      /\ store[id].status = PAYMENT_PROCESSING
      /\ store[id].created_at < now - unpaid_payment_hrs(store[id].crypto)
      /\ update_filter(store[id], store[id].crypto, now)

\* C18: a step of a status-update or price-refresh sweep run for a backend
\* changes no payment of another backend.
C18_BackendIsolation ==
    [][runs[1].op \in {"update", "refresh"} =>
         \A id \in Ids :
           store[id].crypto # runs[1].crypto => store'[id] = store[id]]_vars

\* C19: the expiry sweep cancels no payment before the expiry window of the
\* payment's own backend has elapsed since its created_at.
C19_OwnExpiryWindow ==
    [][\A id \in Ids :
         (/\ runs[1].op = "cancel"
          /\ store[id].status # PAYMENT_CANCELLED
          /\ store'[id].status = PAYMENT_CANCELLED)
         => now - store[id].created_at >= unpaid_payment_hrs(store[id].crypto)]_vars

\* C20: every child payment is linked from its parent, whose stored status
\* is PAID, and no parent has been given two children.
C20_NoOrphanNoDuplicate ==
    /\ \A c \in children :
         /\ store[c[1]].child_payment = c[2]
         /\ store[c[1]].status = PAYMENT_PAID
    /\ \A id \in Ids : Cardinality({c \in children : c[1] = id}) \in {0, 1}

====
